---- MODULE Spec2Model ----
(***************************************************************************)
(* Model of the lcp crate: longest_common_prefix and                      *)
(* longest_common_prefix_in (src/src/lib.rs) and the sample program        *)
(* (src/src/main.rs).                                                      *)
(*                                                                         *)
(* A str is modelled by what the code can observe of it: the address of    *)
(* its storage (ptr) and its bytes (s), the UTF-8 encoding of its          *)
(* characters.  Every view the code produces starts at offset 0 of the     *)
(* storage it borrows from, so a view is the pair of the storage's         *)
(* address and the bytes it covers.                                        *)
(***************************************************************************)
EXTENDS Integers, Sequences, FiniteSets, TLC

VARIABLES a, b, res,
          items, pc, lcp, pos, result,
          cliPc, stdout, stderr, exit

vars == <<a, b, res, items, pc, lcp, pos, result, cliPc, stdout, stderr, exit>>

(* ------------------------------ bounds -------------------------------- *)

\* Longest argument, in characters, of a modelled longest_common_prefix call.
MaxLen == 3
\* Longest element, in characters, of a modelled collection.
MaxItemLen == 2
\* Most elements of a modelled collection (and most program arguments).
MaxItems == 3

\* Unicode scalar values the arguments are drawn from: 'a', 'b', U+00E9
\* (two bytes in UTF-8) and U+20AC (three bytes).
PairChars == {97, 98, 233, 8364}
\* Scalar values the collections' elements are drawn from: 'a' and U+00E9.
ItemChars == {97, 233}

(* ------------------------------ str ----------------------------------- *)

Min(x, y) == IF x < y THEN x ELSE y

\* The UTF-8 encoding of one scalar value.
EncodeChar(c) ==
    IF c < 128 THEN <<c>>
    ELSE IF c < 2048 THEN <<192 + (c \div 64), 128 + (c % 64)>>
    ELSE IF c < 65536
         THEN <<224 + (c \div 4096), 128 + ((c \div 64) % 64), 128 + (c % 64)>>
    ELSE <<240 + (c \div 262144), 128 + ((c \div 4096) % 64),
           128 + ((c \div 64) % 64), 128 + (c % 64)>>

\* The bytes of the str holding the characters cs.
RECURSIVE Utf8(_)
Utf8(cs) == IF cs = <<>> THEN <<>> ELSE EncodeChar(Head(cs)) \o Utf8(Tail(cs))

\* Width in bytes of the character whose first byte is byte0.
WidthOf(byte0) ==
    IF byte0 < 128 THEN 1 ELSE IF byte0 < 224 THEN 2 ELSE IF byte0 < 240 THEN 3 ELSE 4

\* The scalar value encoded at the front of the (valid UTF-8) bytes s.
DecodeFirst(s) ==
    IF s[1] < 128 THEN s[1]
    ELSE IF s[1] < 224 THEN (s[1] - 192) * 64 + (s[2] - 128)
    ELSE IF s[1] < 240
         THEN (s[1] - 224) * 4096 + (s[2] - 128) * 64 + (s[3] - 128)
    ELSE (s[1] - 240) * 262144 + (s[2] - 128) * 4096 + (s[3] - 128) * 64 + (s[4] - 128)

\* str::chars: the characters of the bytes s, in order.
RECURSIVE chars(_)
chars(s) ==
    IF s = <<>> THEN <<>>
    ELSE <<DecodeFirst(s)>> \o chars(SubSeq(s, WidthOf(s[1]) + 1, Len(s)))

\* str::is_char_boundary: byte offset i of s starts a character or ends s.
is_char_boundary(s, i) ==
    \/ i = 0
    \/ i = Len(s)
    \/ i < Len(s) /\ (s[i + 1] < 128 \/ s[i + 1] >= 192)

\* str::len: the length in bytes.
len(v) == Len(v.s)

\* str::is_empty.
is_empty(v) == Len(v.s) = 0

\* A &str: the address of the storage and the bytes viewed.
View(p, s) == [ptr |-> p, s |-> s]

\* ptr::eq on two &str: same address and same length.
ptr_eq(x, y) == x.ptr = y.ptr /\ Len(x.s) = Len(y.s)

\* What a call ends in: a returned view, or a panic.
Ok(v) == [kind |-> "ok", val |-> v]
Panic == [kind |-> "panic", val |-> View(0, <<>>)]
Pending == [kind |-> "pending", val |-> View(0, <<>>)]

\* &x[..i]: the first i bytes of x, in x's storage; panics when i is not a
\* character boundary of x.
SliceTo(x, i) ==
    IF i <= Len(x.s) /\ is_char_boundary(x.s, i)
    THEN Ok(View(x.ptr, SubSeq(x.s, 1, i)))
    ELSE Panic

(* ----------------------- longest_common_prefix ------------------------ *)

NoMismatch == -1

\* The loop over a.chars().zip(b.chars()).enumerate(): the index i of the
\* first pair of characters that differ, from index i on; NoMismatch when
\* the shorter sequence ends first.
RECURSIVE FirstMismatch(_, _, _)
FirstMismatch(ac, bc, i) ==
    IF i >= Len(ac) \/ i >= Len(bc) THEN NoMismatch
    ELSE IF ac[i + 1] # bc[i + 1] THEN i
    ELSE FirstMismatch(ac, bc, i + 1)

\* Mutant: when no character differs, the longer argument is returned.
Exhausted_LongerWins(x, y) == IF len(x) < len(y) THEN Ok(y) ELSE Ok(x)

\* Mutant: when no character differs, the first argument wins a tie.
Exhausted_TieFirst(x, y) == IF len(x) <= len(y) THEN Ok(x) ELSE Ok(y)

\* Mutant: when no character differs, the first argument is returned
\* whatever the lengths.
Exhausted_AlwaysFirst(x, y) == Ok(x)

\* Lines 49-53: no character differed; the argument shorter in bytes is
\* returned, the second one on a tie.
Exhausted(x, y) == IF len(x) < len(y) THEN Ok(x) ELSE Ok(y)

\* Lines 44-46: the characters at index i differ; &a[..i] is returned, i
\* being the index counted in characters.
Mismatch(x, y, i) == SliceTo(x, i)

\* Lines 43-53: the scan.
Scan(x, y) ==
    LET i == FirstMismatch(chars(x.s), chars(y.s), 0)
    IN  IF i # NoMismatch THEN Mismatch(x, y, i) ELSE Exhausted(x, y)

\* Mutant: the identity fast path returns an empty view of a.
FastPath_Empty(x) == Ok(View(x.ptr, <<>>))

\* Lines 39-41: the identity fast path returns a.
FastPath(x) == Ok(x)

longest_common_prefix(x, y) ==
    IF ptr_eq(x, y) THEN FastPath(x) ELSE Scan(x, y)

(* ------------------------------ inputs -------------------------------- *)

\* The strs of at most n characters over the alphabet cs, as bytes.
Strs(cs, n) == {Utf8(w) : w \in UNION {[1..k -> cs] : k \in 0..n}}

\* The arguments of one longest_common_prefix call: a is a whole str; b is
\* a view of a prefix of the same storage (the very same view included), or
\* a str in another storage.
PairInputs ==
    {<<View(1, s), View(1, SubSeq(s, 1, k))>> :
        <<s, k>> \in {<<s, k>> \in Strs(PairChars, MaxLen) \X (0..(3 * MaxLen)) :
                        k <= Len(s) /\ is_char_boundary(s, k)}}
    \cup {<<View(1, s), View(2, t)>> :
            <<s, t>> \in Strs(PairChars, MaxLen) \X Strs(PairChars, MaxLen)}

\* Element i of a collection: a str of its own (address i), or, when al[i],
\* the same str as the first earlier element of equal content.
ItemAt(w, al, i) ==
    LET same == {j \in 1..(i - 1) : w[j] = w[i]}
    IN  IF al[i] /\ same # {}
        THEN View(CHOOSE j \in same : \A h \in same : j <= h, w[i])
        ELSE View(i, w[i])

Collection(w, al) == [i \in DOMAIN w |-> ItemAt(w, al, i)]

(* ---------------------- longest_common_prefix_in ---------------------- *)

None == [kind |-> "none", val |-> View(0, <<>>)]
Some(v) == [kind |-> "some", val |-> v]
Unwound == [kind |-> "panic", val |-> View(0, <<>>)]

\* Lines 62-66: the first element is pulled; None when there is none.
InBegin ==
    /\ pc = "start"
    /\ IF Len(items) = 0
       THEN /\ result' = None
            /\ pc' = "done"
            /\ UNCHANGED <<lcp, pos>>
       ELSE /\ lcp' = items[1]
            /\ pos' = 1
            /\ pc' = "loop"
            /\ UNCHANGED result
    /\ UNCHANGED <<a, b, res, items, cliPc, stdout, stderr, exit>>

\* Mutant: the test of the running prefix is inverted: the loop returns as
\* soon as the running prefix is NOT empty.
InStep_InvertedTest ==
    /\ pc = "loop"
    /\ IF pos < Len(items)
       THEN LET cur == items[pos + 1]
                r == longest_common_prefix(lcp, cur)
            IN  /\ pos' = pos + 1
                /\ IF r.kind = "panic"
                   THEN /\ pc' = "panicked"
                        /\ result' = Unwound
                        /\ UNCHANGED lcp
                   ELSE /\ lcp' = r.val
                        /\ IF ~is_empty(r.val)
                           THEN /\ result' = Some(r.val)
                                /\ pc' = "done"
                           ELSE /\ pc' = "loop"
                                /\ UNCHANGED result
       ELSE /\ result' = Some(lcp)
            /\ pc' = "done"
            /\ UNCHANGED <<lcp, pos>>
    /\ UNCHANGED <<a, b, res, items, cliPc, stdout, stderr, exit>>

\* Mutant: the loop never returns early.
InStep_NoShortCircuit ==
    /\ pc = "loop"
    /\ IF pos < Len(items)
       THEN LET cur == items[pos + 1]
                r == longest_common_prefix(lcp, cur)
            IN  /\ pos' = pos + 1
                /\ IF r.kind = "panic"
                   THEN /\ pc' = "panicked"
                        /\ result' = Unwound
                        /\ UNCHANGED lcp
                   ELSE /\ lcp' = r.val
                        /\ pc' = "loop"
                        /\ UNCHANGED result
       ELSE /\ result' = Some(lcp)
            /\ pc' = "done"
            /\ UNCHANGED <<lcp, pos>>
    /\ UNCHANGED <<a, b, res, items, cliPc, stdout, stderr, exit>>

\* Lines 68-76: one turn of the loop (the next element is pulled, the
\* running prefix updated and tested), or the return after the last one.
InStep ==
    /\ pc = "loop"
    /\ IF pos < Len(items)
       THEN LET cur == items[pos + 1]
                r == longest_common_prefix(lcp, cur)
            IN  /\ pos' = pos + 1
                /\ IF r.kind = "panic"
                   THEN /\ pc' = "panicked"
                        /\ result' = Unwound
                        /\ UNCHANGED lcp
                   ELSE /\ lcp' = r.val
                        /\ IF is_empty(r.val)
                           THEN /\ result' = Some(r.val)
                                /\ pc' = "done"
                           ELSE /\ pc' = "loop"
                                /\ UNCHANGED result
       ELSE /\ result' = Some(lcp)
            /\ pc' = "done"
            /\ UNCHANGED <<lcp, pos>>
    /\ UNCHANGED <<a, b, res, items, cliPc, stdout, stderr, exit>>

(* ------------------------------- main --------------------------------- *)

\* Address of a String made by to_owned: no argument's address.
OwnedAddr == 0
\* Exit status of a process whose main returns.
ExitSuccess == 0
\* Exit status of a process whose main thread panics.
ExitPanic == 101

\* Address of the bytes of an empty String: a String of no capacity owns no
\* allocation, and all of them hold the same dangling address.
DanglingAddr == -1

\* A String of the bytes s, allocated at address p when it is not empty.
StringAt(p, s) == View(IF s = <<>> THEN DanglingAddr ELSE p, s)

\* std::env::args().skip(1): each argument a String of its own.
Args(q) == [i \in DOMAIN q |-> StringAt(i, q[i].s)]

to_owned(v) == StringAt(OwnedAddr, v.s)

\* Lines 10-12: reduce(|acc, s| longest_common_prefix(&acc, &s).to_owned())
\* from argument k on.
RECURSIVE ReduceFrom(_, _, _)
ReduceFrom(acc, args, k) ==
    IF k > Len(args) THEN Some(acc)
    ELSE LET r == longest_common_prefix(acc, args[k])
         IN  IF r.kind = "panic" THEN Unwound
             ELSE ReduceFrom(to_owned(r.val), args, k + 1)

Reduce(args) == IF Len(args) = 0 THEN None ELSE ReduceFrom(args[1], args, 2)

\* The bytes of "<empty>".
EmptyToken == <<60, 101, 109, 112, 116, 121, 62>>

\* Lines 9-23: the whole program.
Main ==
    /\ cliPc = "start"
    /\ cliPc' = "exited"
    /\ LET r == Reduce(Args(items))
       IN  IF r.kind = "some"
           THEN /\ stdout' = IF is_empty(r.val) THEN <<EmptyToken>> ELSE <<r.val.s>>
                /\ stderr' = <<>>
                /\ exit' = ExitSuccess
           ELSE IF r.kind = "none"
           THEN /\ stdout' = <<>>
                /\ stderr' = <<"Usage: lcp [word...]">>
                /\ exit' = ExitSuccess
           ELSE /\ stdout' = <<>>
                /\ stderr' = <<"panicked">>
                /\ exit' = ExitPanic
    /\ UNCHANGED <<a, b, res, items, pc, lcp, pos, result>>

(* -------------------------- specifications ---------------------------- *)

NoCollection ==
    /\ items = <<>>
    /\ pc = "idle"
    /\ lcp = View(0, <<>>)
    /\ pos = 0
    /\ result = Pending
    /\ cliPc = "idle"
    /\ stdout = <<>>
    /\ stderr = <<>>
    /\ exit = -1

\* One call longest_common_prefix(a, b).
InitPair ==
    /\ \E p \in PairInputs : a = p[1] /\ b = p[2]
    /\ res = Pending
    /\ NoCollection

Call ==
    /\ res.kind = "pending"
    /\ pc = "idle"
    /\ res' = longest_common_prefix(a, b)
    /\ UNCHANGED <<a, b, items, pc, lcp, pos, result, cliPc, stdout, stderr, exit>>

NextPair == Call

SpecPair == InitPair /\ [][NextPair]_vars

\* One call longest_common_prefix_in(items), and one run of the program
\* with the same strs as its arguments.
Init ==
    /\ a = View(0, <<>>)
    /\ b = View(0, <<>>)
    /\ res = Pending
    /\ \E n \in 0..MaxItems :
         \E w \in [1..n -> Strs(ItemChars, MaxItemLen)], al \in [1..n -> BOOLEAN] :
            items = Collection(w, al)
    /\ pc = "start"
    /\ lcp = View(0, <<>>)
    /\ pos = 0
    /\ result = Pending
    /\ cliPc = "start"
    /\ stdout = <<>>
    /\ stderr = <<>>
    /\ exit = -1

Next == InBegin \/ InStep \/ Main

Spec == Init /\ [][Next]_vars

(* ------------------------------ claims -------------------------------- *)

IsPrefix(p, s) == Len(p) <= Len(s) /\ SubSeq(s, 1, Len(p)) = p

\* The largest k such that ac and bc agree on their first k characters.
CommonLen(ac, bc) ==
    CHOOSE k \in 0..Min(Len(ac), Len(bc)) :
        /\ \A j \in 1..k : ac[j] = bc[j]
        /\ k < Min(Len(ac), Len(bc)) => ac[k + 1] # bc[k + 1]

Called == res.kind # "pending"

HasWideChar(s) == \E j \in 1..Len(s) : s[j] >= 128

\* C1: whenever longest_common_prefix(a, b) returns, the value is exactly
\* the first k characters of a, k the number of leading characters on which
\* a and b agree (k counted in characters).
C1_ExactCommonPrefix ==
    res.kind = "ok" =>
        chars(res.val.s) = SubSeq(chars(a.s), 1, CommonLen(chars(a.s), chars(b.s)))

\* C2: a call of longest_common_prefix never ends in a panic.
C2_NeverPanics == res.kind # "panic"

\* C3: whenever longest_common_prefix(a, b) returns r, r is a prefix of a
\* and of b, in bytes and in characters, no longer than the shorter of the
\* two; and when a or b is empty the call returns the empty str.
C3_PrefixOfBoth ==
    /\ res.kind = "ok" =>
         /\ IsPrefix(res.val.s, a.s) /\ IsPrefix(res.val.s, b.s)
         /\ len(res.val) <= Min(len(a), len(b))
         /\ IsPrefix(chars(res.val.s), chars(a.s))
         /\ IsPrefix(chars(res.val.s), chars(b.s))
         /\ Len(chars(res.val.s)) <= Min(Len(chars(a.s)), Len(chars(b.s)))
    /\ (Called /\ (is_empty(a) \/ is_empty(b))) =>
         res.kind = "ok" /\ is_empty(res.val)

\* A call that found a mismatch after a multi-byte character and returned
\* a non-empty proper prefix.
C3_Witness ==
    /\ res.kind = "ok"
    /\ ~ptr_eq(a, b)
    /\ FirstMismatch(chars(a.s), chars(b.s), 0) # NoMismatch
    /\ HasWideChar(res.val.s)
    /\ res.val.s # a.s /\ res.val.s # b.s

\* C6: longest_common_prefix(a, b) and longest_common_prefix(b, a) end the
\* same way, and when they return, return the same bytes.
C6_Commutative ==
    Called =>
        LET back == longest_common_prefix(b, a)
        IN  back.kind = res.kind /\ back.val.s = res.val.s

\* Two strs in different storage that differ after a common multi-byte
\* start: the two orders return the same bytes in views of different storage.
C6_Witness ==
    /\ res.kind = "ok"
    /\ a.ptr # b.ptr
    /\ a.s # b.s
    /\ ~is_empty(res.val)
    /\ longest_common_prefix(b, a).val.ptr # res.val.ptr
    /\ HasWideChar(res.val.s)

\* C7: when b has the content of a, the call returns the content of a,
\* whether b is the very same view (fast path) or not (scan); and on the
\* very same view the fast path returns what the scan would.
C7_Identity ==
    /\ (Called /\ a.s = b.s) => res.kind = "ok" /\ res.val.s = a.s
    /\ (Called /\ ptr_eq(a, b)) =>
          res.kind = Scan(a, b).kind /\ res.val.s = Scan(a, b).val.s

\* The fast path taken on a non-empty str with a multi-byte character.
C7_Witness ==
    /\ Called
    /\ ptr_eq(a, b)
    /\ HasWideChar(a.s)
    /\ res.val = a

InReturned == pc \in {"done", "panicked"}

\* C4: longest_common_prefix_in ends with None exactly when the collection
\* has no element, and with a present value for every collection of at
\* least one element.
C4_PresentIffNonEmpty ==
    InReturned =>
        /\ (result.kind = "none") <=> (Len(items) = 0)
        /\ Len(items) >= 1 => result.kind = "some"

\* C5: for a non-empty collection, longest_common_prefix_in ends as the
\* plain left fold of longest_common_prefix (the program's reduce) ends,
\* and a returned value has the bytes the fold returns.
C5_FoldConsistent ==
    LET fold == Reduce(Args(items))
    IN  /\ (pc = "done" /\ Len(items) >= 1) =>
              /\ result.kind = "some" /\ fold.kind = "some"
              /\ fold.val.s = result.val.s
        /\ pc = "panicked" => fold.kind = "panic"

\* The short-circuit taken with elements left unread.
C5_Witness ==
    /\ pc = "done"
    /\ result.kind = "some"
    /\ pos < Len(items)
    /\ ~is_empty(items[Len(items)])

\* C8: the program run with no argument writes the usage line to the error
\* stream, nothing to standard output, and exits with a status other than
\* that of a run that printed (main returning: ExitSuccess).
C8_UsageExitDistinct ==
    (cliPc = "exited" /\ Len(items) = 0) =>
        /\ stderr = <<"Usage: lcp [word...]">>
        /\ stdout = <<>>
        /\ exit # ExitSuccess

\* C9 as stated: whenever the loop is about to pull an element, the running
\* prefix is not empty.
C9_NoPullWhenEmpty ==
    (pc = "loop" /\ pos < Len(items)) => ~is_empty(lcp)

\* C9 amended: a running prefix that is empty after a pairwise step has
\* been returned at once (the loop is never at its head with it); a running
\* prefix initialised from an empty first element is not tested before the
\* loop, which pulls one more element, if any, and then returns the empty
\* str.
C9_ShortCircuitAfterStep ==
    /\ (pc = "loop" /\ pos >= 2) => ~is_empty(lcp)
    /\ (pc = "loop" /\ pos < Len(items) /\ is_empty(lcp)) => pos = 1
    /\ (pos >= 1 /\ is_empty(items[1])) => pos <= 2
    /\ (pc = "done" /\ Len(items) >= 2 /\ is_empty(items[1])) =>
          pos = 2 /\ result.kind = "some" /\ is_empty(result.val)
    /\ (pc = "done" /\ pos < Len(items)) =>
          result.kind = "some" /\ is_empty(result.val)

\* An empty first element, one more element pulled, the third left unread.
C9_Witness ==
    /\ pc = "done"
    /\ Len(items) = 3
    /\ is_empty(items[1])
    /\ pos = 2

\* The running prefix after the first k elements, as the loop computes it
\* (used only where no step before k panicked).
RECURSIVE RunningAt(_)
RunningAt(k) ==
    IF k = 1 THEN items[1]
    ELSE longest_common_prefix(RunningAt(k - 1), items[k]).val

\* The last of the first k elements that, when pulled, was wholly a prefix
\* of the running prefix (no longer than it in bytes); the first element
\* when there is none.
RECURSIVE Winner(_)
Winner(k) ==
    IF k = 1 THEN 1
    ELSE IF IsPrefix(items[k].s, RunningAt(k - 1).s) THEN k
    ELSE Winner(k - 1)

NoTieWithFirst ==
    \A j \in 2..Len(items) : len(items[j]) # len(items[1])

\* C10 as stated, for the returned views that are not empty: the returned
\* view lies in the storage of the first element unless a later element has
\* the byte length of the first.
C10_FirstStorageUnlessTie ==
    (pc = "done" /\ result.kind = "some" /\ ~is_empty(result.val) /\ NoTieWithFirst) =>
        result.val.ptr = items[1].ptr /\ IsPrefix(result.val.s, items[1].s)

\* C10 amended: the running prefix, and so the returned view, lies in the
\* storage of the first element unless some later element was, when pulled,
\* wholly a prefix of the running prefix (shorter than it or of the same
\* length); then it lies in the storage of the last such element.
C10_StorageOfLastWinner ==
    (pc \in {"loop", "done"} /\ pos >= 1) =>
        LET view == IF pc = "done" THEN result.val ELSE lcp
            w == items[Winner(pos)]
        IN  view.ptr = w.ptr /\ IsPrefix(view.s, w.s)

\* A non-empty view of a later, strictly shorter element is returned.
C10_Witness ==
    /\ pc = "done"
    /\ result.kind = "some"
    /\ ~is_empty(result.val)
    /\ NoTieWithFirst
    /\ result.val.ptr # items[1].ptr

====
